---- MODULE Spec2Model ----
(***************************************************************************)
(* A model of langdspy/prompt_strategies.py: PromptSignature (the role     *)
(* mappings, input validation, example validation), PromptStrategy (the    *)
(* format dispatch of format_prompt and parse_output_to_fields) and        *)
(* DefaultPromptStrategy (three renderers, three parsers).                 *)
(*                                                                         *)
(* Text is a sequence of lexemes (strings).  A Python value is a sequence  *)
(* of lexemes too; None is the one-lexeme sequence <<"None">>, which no    *)
(* text is.  A dict is a function on its key set; an ordered dict of field *)
(* descriptors is the sequence of the descriptors in insertion order.      *)
(***************************************************************************)
EXTENDS Integers, Sequences, FiniteSets, TLC

VARIABLES
    fields,            \* self.__class__.__fields__, in declaration order
    examples,          \* __examples__
    input_variables,   \* self.input_variables
    output_variables,  \* self.output_variables
    hint_variables,    \* self.hint_variables
    pc,                \* "declared", "constructed" or "failed" (__init__ raised)
    ret                \* the last call: its operation, arguments and outcome

vars == <<fields, examples, input_variables, output_variables, hint_variables, pc, ret>>

----------------------------------------------------------------------------
(* Bounds *)

MaxFields == 4
MaxExamples == 2
MaxPieces == 5
MaxTrained == 2
MaxCalls == 3

----------------------------------------------------------------------------
(* Values, dicts, ordered dicts *)

None == <<"None">>

EmptyDict == [k \in {} |-> None]

Keys(od) == {od[i].name : i \in 1..Len(od)}

Range(s) == {s[i] : i \in 1..Len(s)}

Put(d, k, v) == [x \in DOMAIN d \cup {k} |-> IF x = k THEN v ELSE d[x]]

----------------------------------------------------------------------------
(* Field descriptors: name is the attribute name, disp the descriptor's    *)
(* .name (the display name), kind the declared type of the attribute.      *)

Descriptor(name, kind, disp, optional) ==
    [name |-> name, kind |-> kind, disp |-> disp, optional |-> optional]

Question == Descriptor("question", "InputField", <<"Question">>, FALSE)
Context == Descriptor("context", "InputField", <<"Context">>, TRUE)
Answer == Descriptor("answer", "OutputField", <<"Answer">>, FALSE)
Summary == Descriptor("summary", "OutputField", <<"summary">>, FALSE)
Score == Descriptor("score", "OutputField", <<"score">>, FALSE)
Hint == Descriptor("hint", "HintField", <<"Hint">>, FALSE)
InstanceId == Descriptor("instance_id", "str", <<>>, FALSE)
Topic == Descriptor("topic", "InputField", <<"Topic">>, FALSE)

FieldPool == {Question, Answer, Score, Hint, InstanceId}

InjectiveSeqs(S, n) ==
    UNION { { s \in [1..k -> S] : \A i, j \in 1..k : i # j => s[i].name # s[j].name }
            : k \in 0..n }

Classes == InjectiveSeqs(FieldPool, MaxFields)

----------------------------------------------------------------------------
(* PromptSignature.__init__ *)

issubclass(kind, base) == kind = base

\* A partition that knows no hint fields
RECURSIVE PartitionFieldsNoHints(_, _, _, _)
PartitionFieldsNoHints(fs, inputs, outputs, hints) ==
    IF fs = <<>> THEN [inputs |-> inputs, outputs |-> outputs, hints |-> hints]
    ELSE LET attribute == Head(fs) IN
         IF issubclass(attribute.kind, "InputField")
         THEN PartitionFieldsNoHints(Tail(fs), Append(inputs, attribute), outputs, hints)
         ELSE IF issubclass(attribute.kind, "OutputField")
         THEN PartitionFieldsNoHints(Tail(fs), inputs, Append(outputs, attribute), hints)
         ELSE PartitionFieldsNoHints(Tail(fs), inputs, outputs, hints)

RECURSIVE PartitionFields(_, _, _, _)
PartitionFields(fs, inputs, outputs, hints) ==
    IF fs = <<>> THEN [inputs |-> inputs, outputs |-> outputs, hints |-> hints]
    ELSE LET attribute == Head(fs) IN
         IF issubclass(attribute.kind, "InputField")
         THEN PartitionFields(Tail(fs), Append(inputs, attribute), outputs, hints)
         ELSE IF issubclass(attribute.kind, "OutputField")
         THEN PartitionFields(Tail(fs), inputs, Append(outputs, attribute), hints)
         ELSE IF issubclass(attribute.kind, "HintField")
         THEN PartitionFields(Tail(fs), inputs, outputs, Append(hints, attribute))
         ELSE PartitionFields(Tail(fs), inputs, outputs, hints)

----------------------------------------------------------------------------
(* Examples: (example_input, example_output); the output is a dict         *)
(* (isdict, held in d) or a scalar (held in s).                            *)

Example(inp, isdict, d, s) == [input |-> inp, isdict |-> isdict, d |-> d, s |-> s]

V1 == <<"v">>

DictOn(K) == [k \in K |-> V1]

ExamplePool ==
    { Example(DictOn(ik), TRUE, DictOn(ok), <<>>)
        : ik \in {{"question"}, {"answer"}}, ok \in {{"answer"}, {"question"}} }
    \cup { Example(DictOn(ik), FALSE, EmptyDict, V1) : ik \in {{}, {"hint"}} }

\* A validation that rejects a scalar output only with more than one output
RECURSIVE validate_examples_gt(_, _, _)
validate_examples_gt(exs, inputs, outputs) ==
    IF exs = <<>> THEN "ok"
    ELSE LET example_input == Head(exs).input
             example_output == Head(exs)
         IN IF \E input_name \in DOMAIN example_input : input_name \notin Keys(inputs)
            THEN "ValueError: Example input field not found in input_variables"
            ELSE IF example_output.isdict
            THEN IF \E output_name \in DOMAIN example_output.d : output_name \notin Keys(outputs)
                 THEN "ValueError: Example output field not found in output_variables"
                 ELSE validate_examples_gt(Tail(exs), inputs, outputs)
            ELSE IF Len(outputs) > 1
                 THEN "ValueError: Example output must be a dictionary when there are multiple output fields"
                 ELSE validate_examples_gt(Tail(exs), inputs, outputs)

\* A validation that does not look at the keys of a dict output
RECURSIVE validate_examples_inputs_only(_, _, _)
validate_examples_inputs_only(exs, inputs, outputs) ==
    IF exs = <<>> THEN "ok"
    ELSE LET example_input == Head(exs).input
             example_output == Head(exs)
         IN IF \E input_name \in DOMAIN example_input : input_name \notin Keys(inputs)
            THEN "ValueError: Example input field not found in input_variables"
            ELSE IF ~example_output.isdict /\ Len(outputs) # 1
                 THEN "ValueError: Example output must be a dictionary when there are multiple output fields"
                 ELSE validate_examples_inputs_only(Tail(exs), inputs, outputs)

RECURSIVE validate_examples(_, _, _)
validate_examples(exs, inputs, outputs) ==
    IF exs = <<>> THEN "ok"
    ELSE LET example_input == Head(exs).input
             example_output == Head(exs)
         IN IF \E input_name \in DOMAIN example_input : input_name \notin Keys(inputs)
            THEN "ValueError: Example input field not found in input_variables"
            ELSE IF example_output.isdict
            THEN IF \E output_name \in DOMAIN example_output.d : output_name \notin Keys(outputs)
                 THEN "ValueError: Example output field not found in output_variables"
                 ELSE validate_examples(Tail(exs), inputs, outputs)
            ELSE IF Len(outputs) # 1
                 THEN "ValueError: Example output must be a dictionary when there are multiple output fields"
                 ELSE validate_examples(Tail(exs), inputs, outputs)

----------------------------------------------------------------------------
(* Outcomes of a call: a normal return of a dict or of a prompt, or the    *)
(* exception that leaves the call (status), with the field it names.       *)

ReturnDict(d) == [status |-> "ok", field |-> "", dict |-> d, prompt |-> <<>>]

ReturnPrompt(p) == [status |-> "ok", field |-> "", dict |-> EmptyDict, prompt |-> p]

Raise(status, name) == [status |-> status, field |-> name, dict |-> EmptyDict, prompt |-> <<>>]

----------------------------------------------------------------------------
(* Field descriptor methods (langdspy/field_descriptors.py)                *)

Bad == <<"b", "a", "d">>

validate_value(field, value) == value # Bad

transform_value(field, value) == <<"transform_value", field.name>> \o value

----------------------------------------------------------------------------
(* PromptSignature._validate_input *)

\* A validation that stores the supplied value, not its transform
RECURSIVE ValidateFieldsNoTransform(_, _, _)
ValidateFieldsNoTransform(fs, input_dict, validated_input) ==
    IF fs = <<>> THEN ReturnDict(validated_input)
    ELSE LET field == Head(fs)
             name == field.name
         IN IF name \notin DOMAIN input_dict
            THEN IF ~field.optional
                 THEN Raise("ValueError: Missing required input", name)
                 ELSE ValidateFieldsNoTransform(Tail(fs), input_dict,
                          Put(validated_input, name, None))
            ELSE IF ~validate_value(field, input_dict[name])
                 THEN Raise("ValueError: Invalid input for", name)
                 ELSE ValidateFieldsNoTransform(Tail(fs), input_dict,
                          Put(validated_input, name, input_dict[name]))

RECURSIVE ValidateFields(_, _, _)
ValidateFields(fs, input_dict, validated_input) ==
    IF fs = <<>> THEN ReturnDict(validated_input)
    ELSE LET field == Head(fs)
             name == field.name
         IN IF name \notin DOMAIN input_dict
            THEN IF ~field.optional
                 THEN Raise("ValueError: Missing required input", name)
                 ELSE ValidateFields(Tail(fs), input_dict, Put(validated_input, name, None))
            ELSE IF ~validate_value(field, input_dict[name])
                 THEN Raise("ValueError: Invalid input for", name)
                 ELSE ValidateFields(Tail(fs), input_dict,
                          Put(validated_input, name, transform_value(field, input_dict[name])))

\* A validation that fills a copy of the supplied mapping
validate_input_into_copy(inputs, input_dict) ==
    IF inputs = <<>> THEN ReturnDict(input_dict)
    ELSE ValidateFields(inputs, input_dict, input_dict)

validate_input(inputs, input_dict) ==
    IF inputs = <<>> THEN ReturnDict(input_dict)
    ELSE ValidateFields(inputs, input_dict, EmptyDict)

\* PromptStrategy.validate_inputs: raises unless the supplied keys are exactly
\* the declared input names; the error names the missing keys first. It
\* returns None, given here as the outcome with the empty dict.
validate_inputs(inputs, inputs_dict) ==
    LET expected_keys == Keys(inputs)
        received_keys == DOMAIN inputs_dict
    IN IF expected_keys # received_keys
       THEN IF expected_keys \ received_keys # {}
            THEN Raise("ValueError: Missing input keys", "")
            ELSE Raise("ValueError: Unexpected input keys", "")
       ELSE ReturnDict(EmptyDict)

----------------------------------------------------------------------------
(* Rendering by the field descriptors, and json.dumps of a dict given as   *)
(* the sequence of its items in insertion order.                           *)

Get(d, k) == IF k \in DOMAIN d THEN d[k] ELSE None

RECURSIVE Concat(_)
Concat(ss) == IF ss = <<>> THEN <<>> ELSE Head(ss) \o Concat(Tail(ss))

RECURSIVE Join(_, _)
Join(sep, ss) ==
    IF ss = <<>> THEN <<>>
    ELSE IF Len(ss) = 1 THEN ss[1]
    ELSE ss[1] \o sep \o Join(sep, Tail(ss))

Map(s, Op(_)) == [i \in 1..Len(s) |-> Op(s[i])]

format_prompt_description(field, llm_type) ==
    IF llm_type = "anthropic"
    THEN <<"<">> \o field.disp \o <<">", "desc", "</">> \o field.disp \o <<">">>
    ELSE field.disp \o <<":", " ", "desc">>

format_prompt_value(field, value, llm_type) ==
    IF llm_type = "anthropic"
    THEN <<"<">> \o field.disp \o <<">">> \o value \o <<"</">> \o field.disp \o <<">">>
    ELSE field.disp \o <<":", " ">> \o value

format_prompt_marker(field, llm_type) == <<"OUTPUT_TOKEN">> \o field.disp \o <<":", " ">>

Item(k, v) == [k |-> k, v |-> v]

format_prompt_value_json(field, value, llm_type) == <<Item(field.disp, value)>>

format_prompt_json(field, llm_type) == <<Item(field.disp, <<"\"\"">>)>>

RECURSIVE update(_, _)
update(items, more) ==
    IF more = <<>> THEN items
    ELSE LET e == Head(more)
             at == {i \in 1..Len(items) : items[i].k = e.k}
         IN update(IF at = {} THEN Append(items, e)
                   ELSE [i \in 1..Len(items) |-> IF i \in at THEN e ELSE items[i]],
                   Tail(more))

json_dumps(items) ==
    <<"{">> \o Join(<<",">>, Map(items, LAMBDA e : e.k \o <<":">> \o e.v)) \o <<"}">>

----------------------------------------------------------------------------
(* Trained state: None (present = FALSE) or an object with .examples       *)

NoTrainedState == [present |-> FALSE, examples |-> <<>>]

TrainedState(exs) == [present |-> TRUE, examples |-> exs]

\* A gate that ignores use_training
UseTrainedAlways(trained_state, use_training) ==
    trained_state.present /\ trained_state.examples # <<>>

UseTrained(trained_state, use_training) ==
    trained_state.present /\ trained_state.examples # <<>> /\ use_training

ExampleOutput(example_output, output_name) ==
    IF example_output.isdict THEN Get(example_output.d, output_name) ELSE example_output.s

----------------------------------------------------------------------------
(* DefaultPromptStrategy._format_openai_prompt *)

Separator == <<"\n---\n\n">>

OutputFieldNames == Join(<<", ">>, Map(output_variables, LAMBDA f : f.disp))

Hints(llm_type) ==
    IF hint_variables # <<>>
    THEN <<"\n">> \o Concat(Map(hint_variables,
                       LAMBDA f : format_prompt_description(f, llm_type) \o <<"\n">>))
    ELSE <<>>

OpenaiExample(ex) ==
    Separator
    \o Concat(Map(input_variables,
           LAMBDA f : format_prompt_value(f, Get(ex.input, f.name), "openai") \o <<"\n">>))
    \o Concat(Map(output_variables,
           LAMBDA f : format_prompt_value(f, ExampleOutput(ex, f.name), "openai") \o <<"\n">>))

format_openai_prompt(trained_state, use_training, exs, kwargs) ==
    <<"Follow the following format. Attributes that have values should not be changed or repeated. ">>
    \o (IF Len(output_variables) > 1
        THEN <<"Provide answers for ">> \o OutputFieldNames \o <<"\n">> ELSE <<>>)
    \o Hints("openai")
    \o <<"\n\n">>
    \o Concat(Map(input_variables, LAMBDA f : format_prompt_description(f, "openai") \o <<"\n">>))
    \o Concat(Map(output_variables, LAMBDA f : format_prompt_description(f, "openai") \o <<"\n">>))
    \o Concat(Map(exs, OpenaiExample))
    \o (IF UseTrained(trained_state, use_training)
        THEN Concat(Map(trained_state.examples, OpenaiExample)) ELSE <<>>)
    \o Separator
    \o Concat(Map(input_variables,
           LAMBDA f : format_prompt_value(f, Get(kwargs, f.name), "openai") \o <<"\n">>))
    \o Concat(Map(output_variables, LAMBDA f : format_prompt_marker(f, "openai") \o <<"\n">>))

----------------------------------------------------------------------------
(* DefaultPromptStrategy._format_openai_json_prompt *)

RECURSIVE UpdateAll(_, _)
UpdateAll(items, mores) ==
    IF mores = <<>> THEN items ELSE UpdateAll(update(items, Head(mores)), Tail(mores))

JsonExample(ex) ==
    LET example_input == UpdateAll(<<>>, Map(input_variables,
            LAMBDA f : format_prompt_value_json(f, Get(ex.input, f.name), "openai_json")))
        example_output == UpdateAll(<<>>, Map(output_variables,
            LAMBDA f : format_prompt_value_json(f, ExampleOutput(ex, f.name), "openai_json")))
    IN json_dumps(<<Item(<<"input">>, json_dumps(example_input)),
                    Item(<<"output">>, json_dumps(example_output))>>) \o <<"\n">>

format_openai_json_prompt(trained_state, use_training, exs, kwargs) ==
    <<"Follow the following format. Answer with a JSON object. Attributes that have values should not be changed or repeated.">>
    \o (IF Len(output_variables) > 1
        THEN <<" Provide answers for ">> \o OutputFieldNames \o <<".\n">> ELSE <<>>)
    \o Hints("openai")
    \o <<"\nInput Fields:\n">>
    \o json_dumps(UpdateAll(<<>>, Map(input_variables, LAMBDA f : <<Item(f.disp, <<"desc">>)>>)))
    \o <<"\n">>
    \o <<"\nOutput Fields:\n">>
    \o json_dumps(UpdateAll(<<>>, Map(output_variables, LAMBDA f : <<Item(f.disp, <<"desc">>)>>)))
    \o <<"\n">>
    \o (IF exs # <<>> THEN <<"\nExamples:\n">> \o Concat(Map(exs, JsonExample)) ELSE <<>>)
    \o (IF UseTrained(trained_state, use_training)
        THEN <<"\nTrained Examples:\n">> \o Concat(Map(trained_state.examples, JsonExample))
        ELSE <<>>)
    \o <<"\nInput:\n">>
    \o json_dumps(UpdateAll(<<>>, Map(input_variables,
           LAMBDA f : format_prompt_value_json(f, Get(kwargs, f.name), "openai_json"))))
    \o <<"\n">>
    \o <<"\nOutput:\n">>
    \o json_dumps(UpdateAll(<<>>, Map(output_variables,
           LAMBDA f : format_prompt_json(f, "openai_json"))))
    \o <<"\n">>

----------------------------------------------------------------------------
(* DefaultPromptStrategy._format_anthropic_prompt: a list of messages      *)

SystemMessage(content) == [role |-> "system", content |-> content]

HumanMessage(content) == [role |-> "human", content |-> content]

AnthropicExample(ex) ==
    HumanMessage(
        <<"<example>\n<input>\n">>
        \o Join(<<"\n">>, Map(input_variables,
               LAMBDA f : format_prompt_value(f, Get(ex.input, f.name), "anthropic")))
        \o <<"\n</input>\n<output>\n">>
        \o Join(<<"\n">>, Map(output_variables,
               LAMBDA f : format_prompt_value(f, ExampleOutput(ex, f.name), "anthropic")))
        \o <<"\n</output>\n</example>">>)

format_anthropic_prompt(trained_state, use_training, exs, kwargs) ==
    <<SystemMessage(<<"cache_control preamble">>),
      HumanMessage(<<"Provide answers for output fields ">> \o OutputFieldNames
                   \o <<". Follow the XML output format, only show the output fields do not repeat the hints, input fields or examples.">>)>>
    \o (IF hint_variables # <<>>
        THEN <<HumanMessage(<<"Hints:\n">> \o Join(<<"\n">>, Map(hint_variables,
                   LAMBDA f : format_prompt_description(f, "anthropic"))))>>
        ELSE <<>>)
    \o <<HumanMessage(
            <<"<input_fields>\n">>
            \o Join(<<"\n">>, Map(input_variables,
                   LAMBDA f : format_prompt_description(f, "anthropic")))
            \o <<"\n</input_fields>\n<output_fields>\n">>
            \o Join(<<"\n">>, Map(output_variables,
                   LAMBDA f : format_prompt_description(f, "anthropic")))
            \o <<"\n</output_fields>">>)>>
    \o Map(exs, AnthropicExample)
    \o (IF UseTrained(trained_state, use_training)
        THEN Map(trained_state.examples, AnthropicExample) ELSE <<>>)
    \o <<HumanMessage(
            <<"<input>\n">>
            \o Join(<<"\n">>, Map(input_variables,
                   LAMBDA f : format_prompt_value(f, Get(kwargs, f.name), "anthropic")))
            \o <<"\n</input>">>),
         HumanMessage(<<"Respond with the output in the following format:\n<output>\n[Your response here]\n</output>">>)>>

----------------------------------------------------------------------------
(* Raw model output: a str, or an object whose .content is the str         *)

Raw(text, wrapped) == [text |-> text, wrapped |-> wrapped]

OUTPUT_TOKEN == "OUTPUT_TOKEN"

(* str.split(sep) for a one-lexeme separator: always at least one chunk *)
RECURSIVE split(_, _)
split(s, sep) ==
    LET at == {i \in 1..Len(s) : s[i] = sep} IN
    IF at = {} THEN <<s>>
    ELSE LET i == CHOOSE k \in at : \A j \in at : k <= j
         IN <<SubSeq(s, 1, i - 1)>> \o split(SubSeq(s, i + 1, Len(s)), sep)

(* The least index >= from at which pat occurs in s, or 0 *)
find(s, pat, from) ==
    LET at == {i \in from..(Len(s) - Len(pat) + 1) : SubSeq(s, i, i + Len(pat) - 1) = pat} IN
    IF at = {} THEN 0 ELSE CHOOSE k \in at : \A j \in at : k <= j

IsSpace(c) == c \in {" ", "\n"}

RECURSIVE strip(_)
strip(s) ==
    IF s = <<>> THEN s
    ELSE IF IsSpace(Head(s)) THEN strip(Tail(s))
    ELSE IF IsSpace(s[Len(s)]) THEN strip(SubSeq(s, 1, Len(s) - 1))
    ELSE s

(* PromptStrategy._get_output_field: the first output whose display name  *)
(* is field_name, or "" for None                                           *)
get_output_field(field_name) ==
    LET at == {i \in 1..Len(output_variables) : output_variables[i].disp = field_name} IN
    IF at = {} THEN ""
    ELSE output_variables[CHOOSE k \in at : \A j \in at : k <= j].name

----------------------------------------------------------------------------
(* DefaultPromptStrategy._parse_openai_output_to_fields                    *)

NoMatch == [matched |-> FALSE, field_name |-> <<>>, field_content |-> <<>>]

\* re.match(pattern, line, re.MULTILINE): at the start of line, one or more
\* non-colon lexemes (group 1), a colon, a space, then the rest of that text
\* line (group 2)
match_line(line) ==
    LET c == find(line, <<":">>, 1) IN
    IF c < 2 \/ c = Len(line) THEN NoMatch
    ELSE IF line[c + 1] # " " THEN NoMatch
    ELSE LET nl == find(line, <<"\n">>, c + 2)
             end == IF nl = 0 THEN Len(line) ELSE nl - 1
         IN [matched |-> TRUE,
             field_name |-> SubSeq(line, 1, c - 1),
             field_content |-> SubSeq(line, c + 2, end)]

RECURSIVE ParseLines(_, _)
ParseLines(lines, parsed_fields) ==
    IF lines = <<>> THEN parsed_fields
    ELSE LET m == match_line(Head(lines))
             output_field == get_output_field(m.field_name)
         IN IF m.matched /\ output_field # ""
            THEN ParseLines(Tail(lines), Put(parsed_fields, output_field, m.field_content))
            ELSE ParseLines(Tail(lines), parsed_fields)

Falsy(v) == v = None \/ v = <<>>

\* A parser that falls back only when no chunk resolved to the field
parse_openai_output_fallback_if_absent(output) ==
    IF output.wrapped THEN Raise("AttributeError", "split")
    ELSE LET lines == split(output.text, OUTPUT_TOKEN)
             parsed_fields == ParseLines(lines, EmptyDict)
         IN IF Len(output_variables) = 1 /\ DOMAIN parsed_fields = {}
            THEN ReturnDict(Put(parsed_fields, output_variables[1].name, lines[Len(lines)]))
            ELSE ReturnDict(parsed_fields)

parse_openai_output_to_fields(output) ==
    IF output.wrapped THEN Raise("AttributeError", "split")
    ELSE LET lines == split(output.text, OUTPUT_TOKEN)
             parsed_fields == ParseLines(lines, EmptyDict)
         IN IF Len(output_variables) = 1
            THEN LET first_value ==
                         IF DOMAIN parsed_fields = {} THEN None
                         ELSE parsed_fields[CHOOSE k \in DOMAIN parsed_fields : TRUE]
                 IN IF Falsy(first_value)
                    THEN ReturnDict(Put(parsed_fields, output_variables[1].name, lines[Len(lines)]))
                    ELSE ReturnDict(parsed_fields)
            ELSE ReturnDict(parsed_fields)

----------------------------------------------------------------------------
(* DefaultPromptStrategy._parse_anthropic_output_to_fields                 *)

OpenTag(disp) == <<"<">> \o disp \o <<">">>

CloseTag(disp) == <<"</">> \o disp \o <<">">>

\* re.findall(pattern, output, re.DOTALL) from pos on: the contents of the
\* non-overlapping non-greedy open-tag ... close-tag matches, left to right
RECURSIVE findall(_, _, _)
findall(disp, output, pos) ==
    LET o == find(output, OpenTag(disp), pos) IN
    IF o = 0 THEN <<>>
    ELSE LET start == o + Len(OpenTag(disp))
             c == find(output, CloseTag(disp), start)
         IN IF c = 0 THEN <<>>
            ELSE <<SubSeq(output, start, c - 1)>>
                 \o findall(disp, output, c + Len(CloseTag(disp)))

\* A parser that takes the first match
RECURSIVE ParseTagsFirst(_, _, _)
ParseTagsFirst(fs, output, parsed_fields) ==
    IF fs = <<>> THEN parsed_fields
    ELSE LET output_field == Head(fs)
             matches == findall(output_field.disp, output, 1)
         IN IF matches # <<>>
            THEN ParseTagsFirst(Tail(fs), output,
                     Put(parsed_fields, output_field.name, strip(matches[1])))
            ELSE ParseTagsFirst(Tail(fs), output, parsed_fields)

RECURSIVE ParseTags(_, _, _)
ParseTags(fs, output, parsed_fields) ==
    IF fs = <<>> THEN parsed_fields
    ELSE LET output_field == Head(fs)
             matches == findall(output_field.disp, output, 1)
         IN IF matches # <<>>
            THEN ParseTags(Tail(fs), output,
                     Put(parsed_fields, output_field.name, strip(matches[Len(matches)])))
            ELSE ParseTags(Tail(fs), output, parsed_fields)

parse_anthropic_output_to_fields(output) ==
    ReturnDict(ParseTags(output_variables, output.text, EmptyDict))

----------------------------------------------------------------------------
(* json.loads over lexemes: a quote lexeme delimits a string, "1" is a     *)
(* digit, "null", "true" and "false" are the literals.  A parsed value is  *)
(* its type, the text it spans, and (one level deep) the items of an       *)
(* object or the elements of an array.                                     *)

Quote == "\""

Str(content) == <<Quote>> \o content \o <<Quote>>

Fail == [ok |-> FALSE, next |-> 0, t |-> "", text |-> <<>>, items |-> <<>>, elems |-> <<>>]

Value(t, s, from, next, items, elems) ==
    [ok |-> TRUE, next |-> next, t |-> t, text |-> SubSeq(s, from, next - 1),
     items |-> items, elems |-> elems]

RECURSIVE skip_ws(_, _)
skip_ws(s, i) == IF i <= Len(s) /\ IsSpace(s[i]) THEN skip_ws(s, i + 1) ELSE i

RECURSIVE skip_digits(_, _)
skip_digits(s, i) == IF i <= Len(s) /\ s[i] = "1" THEN skip_digits(s, i + 1) ELSE i

RECURSIVE parse_value(_, _)
RECURSIVE parse_members(_, _, _, _)
RECURSIVE parse_elements(_, _, _, _)

parse_string(s, i) ==
    IF i > Len(s) \/ s[i] # Quote THEN Fail
    ELSE LET close == find(s, <<Quote>>, i + 1) IN
         IF close = 0 \/ find(SubSeq(s, i + 1, close - 1), <<"\n">>, 1) # 0 THEN Fail
         ELSE Value("string", s, i, close + 1, <<>>, <<>>)

parse_value(s, i0) ==
    LET i == skip_ws(s, i0) IN
    IF i > Len(s) THEN Fail
    ELSE IF s[i] = "{" THEN
        LET j == skip_ws(s, i + 1) IN
        IF j <= Len(s) /\ s[j] = "}" THEN Value("object", s, i, j + 1, <<>>, <<>>)
        ELSE parse_members(s, i, j, <<>>)
    ELSE IF s[i] = "[" THEN
        LET j == skip_ws(s, i + 1) IN
        IF j <= Len(s) /\ s[j] = "]" THEN Value("array", s, i, j + 1, <<>>, <<>>)
        ELSE parse_elements(s, i, j, <<>>)
    ELSE IF s[i] = Quote THEN parse_string(s, i)
    ELSE IF s[i] = "1" THEN Value("number", s, i, skip_digits(s, i), <<>>, <<>>)
    ELSE IF s[i] \in {"null", "true", "false"} THEN Value(s[i], s, i, i + 1, <<>>, <<>>)
    ELSE Fail

parse_members(s, from, i, items) ==
    LET key == parse_string(s, i) IN
    IF ~key.ok THEN Fail
    ELSE LET c == skip_ws(s, key.next) IN
         IF c > Len(s) \/ s[c] # ":" THEN Fail
         ELSE LET v == parse_value(s, c + 1) IN
              IF ~v.ok THEN Fail
              ELSE LET e == skip_ws(s, v.next)
                       more == Append(items,
                                   [k |-> SubSeq(key.text, 2, Len(key.text) - 1),
                                    t |-> v.t, v |-> v.text])
                   IN IF e > Len(s) THEN Fail
                      ELSE IF s[e] = "}" THEN Value("object", s, from, e + 1, more, <<>>)
                      ELSE IF s[e] = "," THEN parse_members(s, from, skip_ws(s, e + 1), more)
                      ELSE Fail

parse_elements(s, from, i, elems) ==
    LET v == parse_value(s, i) IN
    IF ~v.ok THEN Fail
    ELSE LET e == skip_ws(s, v.next)
             more == Append(elems, [t |-> v.t, v |-> v.text])
         IN IF e > Len(s) THEN Fail
            ELSE IF s[e] = "]" THEN Value("array", s, from, e + 1, <<>>, more)
            ELSE IF s[e] = "," THEN parse_elements(s, from, skip_ws(s, e + 1), more)
            ELSE Fail

json_loads(s) ==
    LET v == parse_value(s, 1) IN
    IF v.ok /\ skip_ws(s, v.next) = Len(s) + 1 THEN v ELSE Fail

----------------------------------------------------------------------------
(* DefaultPromptStrategy._parse_openai_json_output_to_fields               *)

\* name in json_output: "yes", "no", or "TypeError" when json_output is not
\* a container
Contains(json_output, name) ==
    IF json_output.t = "object"
    THEN IF \E i \in 1..Len(json_output.items) : json_output.items[i].k = name
         THEN "yes" ELSE "no"
    ELSE IF json_output.t = "array"
    THEN IF \E i \in 1..Len(json_output.elems) : json_output.elems[i].v = Str(name)
         THEN "yes" ELSE "no"
    ELSE IF json_output.t = "string"
    THEN IF find(SubSeq(json_output.text, 2, Len(json_output.text) - 1), name, 1) # 0
         THEN "yes" ELSE "no"
    ELSE "TypeError"

\* json_output[name] of a dict: the value of the last item with that key
Lookup(json_output, name) ==
    LET at == {i \in 1..Len(json_output.items) : json_output.items[i].k = name}
    IN json_output.items[CHOOSE k \in at : \A j \in at : j <= k].v

\* A parser that leaves a field without a JSON entry out of the result
RECURSIVE ParseJsonFieldsNoNone(_, _, _)
ParseJsonFieldsNoNone(fs, json_output, parsed_fields) ==
    IF fs = <<>> THEN ReturnDict(parsed_fields)
    ELSE LET output_field == Head(fs)
             has == Contains(json_output, output_field.disp)
         IN IF has = "TypeError" THEN Raise("TypeError", output_field.name)
            ELSE IF has = "yes"
            THEN IF json_output.t # "object" THEN Raise("TypeError", output_field.name)
                 ELSE ParseJsonFieldsNoNone(Tail(fs), json_output,
                          Put(parsed_fields, output_field.name,
                              transform_value(output_field,
                                              Lookup(json_output, output_field.disp))))
            ELSE ParseJsonFieldsNoNone(Tail(fs), json_output, parsed_fields)

RECURSIVE ParseJsonFields(_, _, _)
ParseJsonFields(fs, json_output, parsed_fields) ==
    IF fs = <<>> THEN ReturnDict(parsed_fields)
    ELSE LET output_field == Head(fs)
             has == Contains(json_output, output_field.disp)
         IN IF has = "TypeError" THEN Raise("TypeError", output_field.name)
            ELSE IF has = "yes"
            THEN IF json_output.t # "object" THEN Raise("TypeError", output_field.name)
                 ELSE ParseJsonFields(Tail(fs), json_output,
                          Put(parsed_fields, output_field.name,
                              transform_value(output_field,
                                              Lookup(json_output, output_field.disp))))
            ELSE ParseJsonFields(Tail(fs), json_output,
                     Put(parsed_fields, output_field.name, None))

parse_openai_json_output_to_fields(output) ==
    IF output.wrapped THEN Raise("TypeError", "loads")
    ELSE LET json_output == json_loads(output.text) IN
         IF ~json_output.ok THEN Raise("JSONDecodeError", "")
         ELSE ParseJsonFields(output_variables, json_output, EmptyDict)

----------------------------------------------------------------------------
(* PromptStrategy.format_prompt and PromptStrategy.parse_output_to_fields  *)

\* format_prompt assigns its local name output (output = output.content)
\* and reads it in hasattr(output, 'content') before any assignment
OutputIsBound == FALSE

format_prompt(llm_type, trained_state, use_training, exs, kwargs) ==
    IF ~OutputIsBound THEN Raise("UnboundLocalError", "output")
    ELSE LET validated_kwargs == validate_input(input_variables, kwargs) IN
         IF validated_kwargs.status # "ok" THEN validated_kwargs
         ELSE IF llm_type = "openai"
         THEN ReturnPrompt(format_openai_prompt(trained_state, use_training, exs,
                                                validated_kwargs.dict))
         ELSE IF llm_type = "openai_json"
         THEN ReturnPrompt(format_openai_json_prompt(trained_state, use_training, exs,
                                                     validated_kwargs.dict))
         ELSE IF llm_type = "anthropic" \/ llm_type = "fake_anthropic"
         THEN ReturnPrompt(format_anthropic_prompt(trained_state, use_training, exs,
                                                   validated_kwargs.dict))
         ELSE Raise("ValueError: Unsupported LLM type", llm_type)

\* A dispatch whose parsers fill the mapping that the call before left
parse_output_to_fields_into_last(output, llm_type) ==
    LET out == IF llm_type = "openai_json" THEN parse_openai_json_output_to_fields(output)
               ELSE IF llm_type = "openai" \/ llm_type = "test"
               THEN parse_openai_output_to_fields(output)
               ELSE IF llm_type = "anthropic" \/ llm_type = "fake_anthropic"
               THEN parse_anthropic_output_to_fields(output)
               ELSE Raise("ValueError: Unsupported LLM type", llm_type)
    IN IF out.status = "ok" /\ ret.out.status = "ok"
       THEN ReturnDict([k \in DOMAIN ret.out.dict \cup DOMAIN out.dict |->
                           IF k \in DOMAIN out.dict THEN out.dict[k] ELSE ret.out.dict[k]])
       ELSE out

parse_output_to_fields(output, llm_type) ==
    IF llm_type = "openai_json" THEN parse_openai_json_output_to_fields(output)
    ELSE IF llm_type = "openai" THEN parse_openai_output_to_fields(output)
    ELSE IF llm_type = "anthropic" \/ llm_type = "fake_anthropic"
    THEN parse_anthropic_output_to_fields(output)
    ELSE IF llm_type = "test" THEN parse_openai_output_to_fields(output)
    ELSE Raise("ValueError: Unsupported LLM type", llm_type)

----------------------------------------------------------------------------
(* The last call *)

Call(op, llm_type, kwargs, output, trained_state, use_training, exs, out) ==
    [op |-> op, llm_type |-> llm_type, kwargs |-> kwargs, output |-> output,
     trained_state |-> trained_state, use_training |-> use_training, exs |-> exs,
     out |-> out]

NoCall == Call("none", "", EmptyDict, Raw(<<>>, FALSE), NoTrainedState, TRUE, <<>>,
               ReturnDict(EmptyDict))

----------------------------------------------------------------------------
(* Operations *)

\* PromptSignature.__init__: the role mappings, then validate_examples
Construct ==
    /\ pc = "declared"
    /\ LET p == PartitionFields(fields, <<>>, <<>>, <<>>)
           status == validate_examples(examples, p.inputs, p.outputs)
       IN /\ input_variables' = p.inputs
          /\ output_variables' = p.outputs
          /\ hint_variables' = p.hints
          /\ pc' = IF status = "ok" THEN "constructed" ELSE "failed"
          /\ ret' = Call("__init__", "", EmptyDict, Raw(<<>>, FALSE), NoTrainedState, TRUE,
                         <<>>, Raise(status, ""))
    /\ UNCHANGED <<fields, examples>>

\* An external trainer appends to the examples list
AppendExample(ex) ==
    /\ pc = "constructed"
    /\ Len(examples) < MaxExamples
    /\ examples' = Append(examples, ex)
    /\ ret' = Call("append", "", EmptyDict, Raw(<<>>, FALSE), NoTrainedState, TRUE, <<>>,
                   ReturnDict(EmptyDict))
    /\ UNCHANGED <<fields, input_variables, output_variables, hint_variables, pc>>

Returns(call) ==
    /\ pc = "constructed"
    /\ ret' = call
    /\ UNCHANGED <<fields, examples, input_variables, output_variables, hint_variables, pc>>

ValidateInput(input_dict) ==
    Returns(Call("_validate_input", "", input_dict, Raw(<<>>, FALSE), NoTrainedState, TRUE,
                 <<>>, validate_input(input_variables, input_dict)))

ValidateInputs(inputs_dict) ==
    Returns(Call("validate_inputs", "", inputs_dict, Raw(<<>>, FALSE), NoTrainedState, TRUE,
                 <<>>, validate_inputs(input_variables, inputs_dict)))

FormatPrompt(llm_type, trained_state, use_training, exs, kwargs) ==
    Returns(Call("format_prompt", llm_type, kwargs, Raw(<<>>, FALSE), trained_state,
                 use_training, exs,
                 format_prompt(llm_type, trained_state, use_training, exs, kwargs)))

ParseOutput(output, llm_type) ==
    Returns(Call("parse_output_to_fields", llm_type, EmptyDict, output, NoTrainedState, TRUE,
                 <<>>, parse_output_to_fields(output, llm_type)))

FormatOpenai(trained_state, use_training, exs, kwargs) ==
    Returns(Call("_format_openai_prompt", "openai", kwargs, Raw(<<>>, FALSE), trained_state,
                 use_training, exs,
                 ReturnPrompt(format_openai_prompt(trained_state, use_training, exs, kwargs))))

FormatOpenaiJson(trained_state, use_training, exs, kwargs) ==
    Returns(Call("_format_openai_json_prompt", "openai_json", kwargs, Raw(<<>>, FALSE),
                 trained_state, use_training, exs,
                 ReturnPrompt(format_openai_json_prompt(trained_state, use_training, exs,
                                                        kwargs))))

FormatAnthropic(trained_state, use_training, exs, kwargs) ==
    Returns(Call("_format_anthropic_prompt", "anthropic", kwargs, Raw(<<>>, FALSE),
                 trained_state, use_training, exs,
                 ReturnPrompt(format_anthropic_prompt(trained_state, use_training, exs,
                                                      kwargs))))

ParseOpenai(output) ==
    Returns(Call("_parse_openai_output_to_fields", "openai", EmptyDict, output,
                 NoTrainedState, TRUE, <<>>, parse_openai_output_to_fields(output)))

ParseAnthropic(output) ==
    Returns(Call("_parse_anthropic_output_to_fields", "anthropic", EmptyDict, output,
                 NoTrainedState, TRUE, <<>>, parse_anthropic_output_to_fields(output)))

ParseOpenaiJson(output) ==
    Returns(Call("_parse_openai_json_output_to_fields", "openai_json", EmptyDict, output,
                 NoTrainedState, TRUE, <<>>, parse_openai_json_output_to_fields(output)))

----------------------------------------------------------------------------
(* The life cycle of a Signature: declaration, construction, then render   *)
(* calls, parse calls and external appends to the examples list.           *)

SeqsUpTo(S, n) == UNION {[1..k -> S] : k \in 0..n}

LlmTypes == {"openai", "openai_json", "anthropic", "fake_anthropic", "test", "llama"}

Init ==
    /\ fields \in Classes
    /\ examples \in SeqsUpTo(ExamplePool, MaxExamples)
    /\ input_variables = <<>>
    /\ output_variables = <<>>
    /\ hint_variables = <<>>
    /\ pc = "declared"
    /\ ret = NoCall

Render ==
    \E llm_type \in {"openai", "llama"} :
        FormatPrompt(llm_type, NoTrainedState, TRUE, examples, DictOn({"question"}))

Parse ==
    \E llm_type \in {"anthropic", "llama"} :
        ParseOutput(Raw(<<"x">>, FALSE), llm_type)

Next ==
    \/ Construct
    \/ \E ex \in ExamplePool : AppendExample(ex)
    \/ Render
    \/ Parse

Spec == Init /\ [][Next]_vars

----------------------------------------------------------------------------
(* Claims about the life cycle *)

Constructed == ret.op = "__init__"

UndeclaredInput(ex) == \E k \in DOMAIN ex.input : k \notin Keys(input_variables)

UndeclaredOutput(ex) == ex.isdict /\ \E k \in DOMAIN ex.d : k \notin Keys(output_variables)

\* C3 as stated: construction (validate_examples) fails exactly when some
\* example has an undeclared input key, a dict output with an undeclared key,
\* or a scalar output while more than one output field is declared.
C3_AsStated ==
    Constructed =>
        (pc = "failed" <=>
            \E i \in 1..Len(examples) :
                \/ UndeclaredInput(examples[i])
                \/ UndeclaredOutput(examples[i])
                \/ ~examples[i].isdict /\ Len(output_variables) > 1)

\* C3 amended: validate_examples fails exactly when some example has an
\* undeclared input key, a dict output with an undeclared key, or a scalar
\* output while the number of declared output fields is not exactly one
\* (none included); in every other case it succeeds.
C3_ValidateExamples ==
    Constructed =>
        (pc = "failed" <=>
            \E i \in 1..Len(examples) :
                \/ UndeclaredInput(examples[i])
                \/ UndeclaredOutput(examples[i])
                \/ ~examples[i].isdict /\ Len(output_variables) # 1)

\* C3 witness: construction failed on a scalar example of a Signature that
\* declares no output field, every example being otherwise well formed.
C3_Witness ==
    /\ Constructed
    /\ pc = "failed"
    /\ output_variables = <<>>
    /\ examples # <<>>
    /\ \A i \in 1..Len(examples) :
          ~UndeclaredInput(examples[i]) /\ ~UndeclaredOutput(examples[i])

PairwiseDisjoint ==
    /\ Keys(input_variables) \cap Keys(output_variables) = {}
    /\ Keys(input_variables) \cap Keys(hint_variables) = {}
    /\ Keys(output_variables) \cap Keys(hint_variables) = {}

RoleKeys == Keys(input_variables) \cup Keys(output_variables) \cup Keys(hint_variables)

\* The mapping holds the declared descriptors, in declaration order
InDeclarationOrder(od) ==
    \E pos \in [1..Len(od) -> 1..Len(fields)] :
        /\ \A i \in 1..Len(od) : fields[pos[i]] = od[i]
        /\ \A i, j \in 1..Len(od) : i < j => pos[i] < pos[j]

\* C4 as stated: after construction the three role mappings are pairwise
\* disjoint, their union is the full declared field set of the class, and
\* each follows declaration order.
C4_AsStated ==
    pc # "declared" =>
        /\ PairwiseDisjoint
        /\ RoleKeys = Keys(fields)
        /\ InDeclarationOrder(input_variables)
        /\ InDeclarationOrder(output_variables)
        /\ InDeclarationOrder(hint_variables)

\* C4 amended: after construction the three role mappings are pairwise
\* disjoint, each holds exactly the declared fields of its own type
\* (InputField, OutputField, HintField) in declaration order, so their union
\* is the set of declared fields of one of these three types; a declared
\* field of any other type is in no role mapping.
C4_RoleMappings ==
    pc # "declared" =>
        /\ PairwiseDisjoint
        /\ Keys(input_variables) = {f.name : f \in {g \in Range(fields) : g.kind = "InputField"}}
        /\ Keys(output_variables) = {f.name : f \in {g \in Range(fields) : g.kind = "OutputField"}}
        /\ Keys(hint_variables) = {f.name : f \in {g \in Range(fields) : g.kind = "HintField"}}
        /\ InDeclarationOrder(input_variables)
        /\ InDeclarationOrder(output_variables)
        /\ InDeclarationOrder(hint_variables)

\* C4 witness: a constructed Signature with fields of all three roles, two
\* of one role, and none of another type.
C4_Witness ==
    /\ pc = "constructed"
    /\ Len(output_variables) = 2
    /\ input_variables # <<>>
    /\ hint_variables # <<>>
    /\ Len(fields) = 4

ExampleValid(ex) ==
    /\ DOMAIN ex.input \subseteq Keys(input_variables)
    /\ IF ex.isdict THEN DOMAIN ex.d \subseteq Keys(output_variables)
       ELSE Len(output_variables) = 1

ExamplesValid == \A i \in 1..Len(examples) : ExampleValid(examples[i])

\* C10 as stated: in every state reached by construction followed by render
\* calls, parse calls and external appends, every example of the examples
\* list is valid against the role mappings.
C10_AsStated == pc = "constructed" => ExamplesValid

\* C10 amended: construction leaves a valid examples list, and a render or
\* parse call on a valid list leaves the list and the role mappings as they
\* were; so every state reached by construction followed by render and parse
\* calls has only valid examples.  (An external append is not validated.)
C10_ExamplesValid ==
    [][/\ (ret'.op = "__init__" /\ pc' = "constructed") => ExamplesValid'
       /\ (ret'.op \in {"format_prompt", "parse_output_to_fields"} /\ ExamplesValid)
             => /\ ExamplesValid'
                /\ UNCHANGED <<examples, input_variables, output_variables, hint_variables>>
      ]_vars

\* C10 witness: a render call has returned on a constructed Signature whose
\* examples list holds a dict-output and a scalar-output example.
C10_Witness ==
    /\ pc = "constructed"
    /\ ret.op = "format_prompt"
    /\ Len(examples) = 2
    /\ examples[1].isdict /\ ~examples[2].isdict
    /\ ExamplesValid

----------------------------------------------------------------------------
(* Calls on a constructed Signature.  The initial states are the states    *)
(* __init__ leaves for a few declared classes.                             *)

CallClasses ==
    { <<Question, Context, Topic, Answer>>,
      <<Context, Question, Answer>>,
      <<Question, Hint, Summary, Score>>,
      <<InstanceId, Answer>> }

ConstructedFrom(cls, exs, call) ==
    LET p == PartitionFields(cls, <<>>, <<>>, <<>>) IN
    /\ validate_examples(exs, p.inputs, p.outputs) = "ok"
    /\ fields = cls
    /\ examples = exs
    /\ input_variables = p.inputs
    /\ output_variables = p.outputs
    /\ hint_variables = p.hints
    /\ pc = "constructed"
    /\ ret = call

InitCalls == \E cls \in CallClasses : ConstructedFrom(cls, <<>>, NoCall)

InputDicts ==
    UNION { [K -> {V1, Bad}] : K \in SUBSET {"question", "context", "topic", "extra"} }

NextValidate == \E input_dict \in InputDicts : ValidateInput(input_dict)

SpecValidate == InitCalls /\ [][NextValidate]_vars

DispatchKwargs == { DictOn(K) : K \in SUBSET {"question", "context", "topic"} }

SampleExample == Example(DictOn({"question"}), TRUE, EmptyDict, <<>>)

SampleOutputs ==
    { Raw(text, wrapped) :
        text \in { <<"x">>,
                   <<"Answer", ":", " ", "x">>,
                   <<"<", "summary", ">", "x", "</", "summary", ">">>,
                   <<"{", Quote, "Answer", Quote, ":", "1", "}">>,
                   <<"1">> },
        wrapped \in BOOLEAN }

NextDispatch ==
    \/ \E llm_type \in LlmTypes, kwargs \in DispatchKwargs, use_training \in BOOLEAN,
          trained_state \in {NoTrainedState, TrainedState(<<SampleExample>>)} :
          FormatPrompt(llm_type, trained_state, use_training, examples, kwargs)
    \/ \E output \in SampleOutputs, llm_type \in LlmTypes : ParseOutput(output, llm_type)

SpecDispatch == InitCalls /\ [][NextDispatch]_vars

----------------------------------------------------------------------------
(* Claims about the dispatch and about input validation *)

Renderer(llm_type, trained_state, use_training, exs, kwargs) ==
    IF llm_type = "openai"
    THEN format_openai_prompt(trained_state, use_training, exs, kwargs)
    ELSE IF llm_type = "openai_json"
    THEN format_openai_json_prompt(trained_state, use_training, exs, kwargs)
    ELSE format_anthropic_prompt(trained_state, use_training, exs, kwargs)

\* C1: for every recognized convention and every input that passes the
\* Signature's input validation, format_prompt returns, without raising, the
\* prompt of the matching renderer applied to the validated input values.
C1_FormatPromptReturns ==
    (/\ ret.op = "format_prompt"
     /\ ret.llm_type \in {"openai", "openai_json", "anthropic", "fake_anthropic"}
     /\ validate_input(input_variables, ret.kwargs).status = "ok")
    => /\ ret.out.status = "ok"
       /\ ret.out.prompt = Renderer(ret.llm_type, ret.trained_state, ret.use_training,
                                    ret.exs, validate_input(input_variables, ret.kwargs).dict)

\* C2: an unsupported convention passed to format_prompt or to
\* parse_output_to_fields always fails with ValueError 'Unsupported LLM
\* type', for every input and raw output, and with no other error.
C2_UnsupportedConvention ==
    (/\ ret.op \in {"format_prompt", "parse_output_to_fields"}
     /\ ret.llm_type \notin {"openai", "openai_json", "anthropic", "fake_anthropic", "test"})
    => ret.out.status = "ValueError: Unsupported LLM type"

Absent(f, input_dict) == f.name \notin DOMAIN input_dict

Fails(f, input_dict) ==
    IF Absent(f, input_dict) THEN ~f.optional ELSE ~validate_value(f, input_dict[f.name])

\* C5: _validate_input treats each declared input field in declaration
\* order: absent and not optional fails with 'Missing required input', absent
\* and optional maps to None, present and rejected by validate_value fails
\* with 'Invalid input for', present and accepted maps to transform_value of
\* the value; the first failing field in declaration order decides the error.
C5_ValidateInput ==
    ret.op = "_validate_input" =>
        LET failing == {i \in 1..Len(input_variables) : Fails(input_variables[i], ret.kwargs)}
        IN IF failing # {}
           THEN LET first == CHOOSE i \in failing : \A j \in failing : i <= j
                    f == input_variables[first]
                IN /\ ret.out.field = f.name
                   /\ ret.out.status = IF Absent(f, ret.kwargs)
                                       THEN "ValueError: Missing required input"
                                       ELSE "ValueError: Invalid input for"
           ELSE /\ ret.out.status = "ok"
                /\ \A i \in 1..Len(input_variables) :
                      LET f == input_variables[i] IN
                      /\ f.name \in DOMAIN ret.out.dict
                      /\ ret.out.dict[f.name] =
                            IF Absent(f, ret.kwargs) THEN None
                            ELSE transform_value(f, ret.kwargs[f.name])

\* C5 witness: _validate_input returned a mapping with an absent optional
\* field mapped to None and a supplied field mapped to its transform.
C5_Witness ==
    /\ ret.op = "_validate_input"
    /\ ret.out.status = "ok"
    /\ \E i, j \in 1..Len(input_variables) :
          /\ Absent(input_variables[i], ret.kwargs)
          /\ ret.out.dict[input_variables[i].name] = None
          /\ ~Absent(input_variables[j], ret.kwargs)
          /\ ret.out.dict[input_variables[j].name]
                = transform_value(input_variables[j], ret.kwargs[input_variables[j].name])

\* C5 witness of the error order: two declared fields fail and the error
\* names the earlier one.
C5_WitnessFirstError ==
    /\ ret.op = "_validate_input"
    /\ ret.out.status = "ValueError: Invalid input for"
    /\ \E i, j \in 1..Len(input_variables) :
          /\ i < j
          /\ Fails(input_variables[i], ret.kwargs)
          /\ Fails(input_variables[j], ret.kwargs)
          /\ Absent(input_variables[j], ret.kwargs)
          /\ ret.out.field = input_variables[i].name

----------------------------------------------------------------------------
(* The two input checks of a Signature, called in any order *)

NextValidateKeys ==
    \/ \E input_dict \in InputDicts : ValidateInput(input_dict)
    \/ \E inputs_dict \in InputDicts : ValidateInputs(inputs_dict)

SpecValidateKeys == InitCalls /\ [][NextValidateKeys]_vars

ValidateInputReturned == ret.op = "_validate_input" /\ ret.out.status = "ok"

\* C13 as stated: whenever _validate_input returns normally, the key set of
\* the returned mapping equals the set of declared input field names, for
\* every Signature (one without declared input fields included) and every
\* supplied mapping (one with undeclared keys included).
C13_AsStated ==
    ValidateInputReturned => DOMAIN ret.out.dict = Keys(input_variables)

\* C13 amended: whenever _validate_input returns normally on a Signature
\* with at least one declared input field, the key set of the returned mapping
\* equals the set of declared input field names, undeclared keys dropped; on
\* a Signature without declared input fields it returns the supplied mapping
\* unchanged, undeclared keys included.
C13_ValidatedKeys ==
    ValidateInputReturned =>
        IF input_variables # <<>>
        THEN DOMAIN ret.out.dict = Keys(input_variables)
        ELSE ret.out.dict = ret.kwargs

\* C13 witness: _validate_input returned on a Signature with declared input
\* fields, given a mapping with an undeclared key, and the key is gone.
C13_Witness ==
    /\ ValidateInputReturned
    /\ input_variables # <<>>
    /\ "extra" \in DOMAIN ret.kwargs
    /\ "extra" \notin DOMAIN ret.out.dict
    /\ DOMAIN ret.out.dict = Keys(input_variables)

\* C13 witness of the other case: no declared input field, and the
\* undeclared keys of the supplied mapping came back.
C13_WitnessNoInputs ==
    /\ ValidateInputReturned
    /\ input_variables = <<>>
    /\ "extra" \in DOMAIN ret.out.dict
    /\ validate_inputs(input_variables, ret.kwargs).status = "ValueError: Unexpected input keys"

----------------------------------------------------------------------------
(* The parsers, each applied to a raw output drawn beforehand: the texts   *)
(* of at most MaxPieces pieces, and a few longer ones.                     *)

RECURSIVE Texts(_, _)
Texts(pieces, n) ==
    IF n = 0 THEN {<<>>}
    ELSE LET shorter == Texts(pieces, n - 1)
         IN shorter \cup {t \o p : t \in shorter, p \in pieces}

Input(output) ==
    Call("input", "", EmptyDict, output, NoTrainedState, TRUE, <<>>, ReturnDict(EmptyDict))

OutputsOf(cls) == PartitionFields(cls, <<>>, <<>>, <<>>).outputs

JsonPieces(cls) ==
    {<<"{">>, <<"}">>, <<"[">>, <<"]">>, <<":">>, <<"1">>}
    \cup {Str(f.disp) : f \in Range(OutputsOf(cls))}

LongJsonTexts ==
    { <<"{">> \o Str(<<"summary">>) \o <<":", "1", ",">> \o Str(<<"score">>) \o <<":">>
          \o Str(<<"x">>) \o <<"}">>,
      <<"{">> \o Str(<<"Answer">>) \o <<":", "1", ",", " ">> \o Str(<<"Answer">>)
          \o <<":", "[", "1", ",", "null", "]", "}", "\n">>,
      <<"{">> \o Str(<<"other">>) \o <<":", "{", "}", "}">>,
      <<"[">> \o Str(<<"x">>) \o <<",">> \o Str(<<"Answer">>) \o <<"]">>,
      Str(<<"the", " ", "Answer">>),
      <<"null">>,
      <<"{">> \o Str(<<"Answer">>) \o <<":", "1", ",", "}">> }

InitJson ==
    \E cls \in CallClasses :
        \E text \in Texts(JsonPieces(cls), MaxPieces) \cup LongJsonTexts, wrapped \in BOOLEAN :
            /\ wrapped => Len(text) <= 1
            /\ ConstructedFrom(cls, <<>>, Input(Raw(text, wrapped)))

ApplyParseOpenaiJson == ret.op = "input" /\ ParseOpenaiJson(ret.output)

SpecJson == InitJson /\ [][ApplyParseOpenaiJson]_vars

----------------------------------------------------------------------------
(* Claims about JSON-structured parsing *)

Parsed == json_loads(ret.output.text)

\* The entry of the parsed object for a display name: the last item of
\* that key (a later duplicate key replaces an earlier one)
HasEntry(name) == \E i \in 1..Len(Parsed.items) : Parsed.items[i].k = name

Entry(name) ==
    Parsed.items[CHOOSE i \in 1..Len(Parsed.items) :
                    /\ Parsed.items[i].k = name
                    /\ \A j \in (i + 1)..Len(Parsed.items) : Parsed.items[j].k # name].v

TotalMapping ==
    /\ ret.out.status = "ok"
    /\ DOMAIN ret.out.dict = Keys(output_variables)
    /\ \A i \in 1..Len(output_variables) :
          LET f == output_variables[i] IN
          \/ \E j \in (i + 1)..Len(output_variables) : output_variables[j].name = f.name
          \/ ret.out.dict[f.name] =
                IF HasEntry(f.disp) THEN transform_value(f, Entry(f.disp)) ELSE None

JsonParseOf == ret.op = "_parse_openai_json_output_to_fields" /\ ~ret.output.wrapped

\* C6 as stated: any raw output that decodes as JSON yields a mapping whose
\* key set is exactly the declared output field names, each mapped to the
\* transform of its entry or to None; raw output that is not valid JSON
\* fails with the JSON decode error and returns no mapping.
C6_AsStated ==
    JsonParseOf =>
        IF Parsed.ok THEN TotalMapping
        ELSE ret.out.status = "JSONDecodeError" /\ ret.out.dict = EmptyDict

\* C6 amended: any raw output that decodes as a JSON object yields a mapping
\* whose key set is exactly the declared output field names: a field whose
\* display name is a key of the object maps to transform_value of that
\* entry, every other declared output field maps to None; raw output that
\* is not valid JSON fails with the JSON decode error and returns no
\* mapping.
C6_JsonParse ==
    JsonParseOf =>
        IF Parsed.ok
        THEN Parsed.t = "object" => TotalMapping
        ELSE ret.out.status = "JSONDecodeError" /\ ret.out.dict = EmptyDict

\* C6 witness: an object with an entry for one declared output field and
\* none for another was parsed: one transformed value, one None.
C6_Witness ==
    /\ JsonParseOf
    /\ Parsed.ok /\ Parsed.t = "object"
    /\ ret.out.status = "ok"
    /\ \E i, j \in 1..Len(output_variables) :
          /\ HasEntry(output_variables[i].disp)
          /\ ret.out.dict[output_variables[i].name] # None
          /\ ~HasEntry(output_variables[j].disp)
          /\ ret.out.dict[output_variables[j].name] = None

----------------------------------------------------------------------------
(* Tagged-markup parsing *)

TagPieces(cls) ==
    {<<"x">>, <<" ">>}
    \cup {OpenTag(f.disp) : f \in Range(OutputsOf(cls))}
    \cup {CloseTag(f.disp) : f \in Range(OutputsOf(cls))}

SummaryScoreText ==
    OpenTag(<<"summary">>) \o <<"ok">> \o CloseTag(<<"summary">>)
    \o OpenTag(<<"score">>) \o <<"5">> \o CloseTag(<<"score">>)

LongTagTexts ==
    { SummaryScoreText,
      OpenTag(<<"Answer">>) \o <<"\n", "x", " ", "\n", "x", "\n">> \o CloseTag(<<"Answer">>)
          \o <<"<", "x", ">">> \o OpenTag(<<"Answer">>) \o CloseTag(<<"Answer">>),
      <<"<", "Answer", "x", ">", "</", "Answer">> }

InitAnthropic ==
    \E cls \in CallClasses :
        \E text \in Texts(TagPieces(cls), MaxPieces) \cup LongTagTexts, wrapped \in BOOLEAN :
            ConstructedFrom(cls, <<>>, Input(Raw(text, wrapped)))

ApplyParseAnthropic == ret.op = "input" /\ ParseAnthropic(ret.output)

SpecAnthropic == InitAnthropic /\ [][ApplyParseAnthropic]_vars

Occurrences(text, pat) ==
    {i \in 1..(Len(text) - Len(pat) + 1) : SubSeq(text, i, i + Len(pat) - 1) = pat}

\* The open-tag ... close-tag pairs that re.findall matches: the close tag is
\* the first one after the open tag, and the open tag is the first one after
\* the close tag before (or after the start)
TagMatches(text, disp) ==
    LET opens == Occurrences(text, OpenTag(disp))
        closes == Occurrences(text, CloseTag(disp))
    IN {m \in opens \X closes :
          /\ m[1] < m[2]
          /\ \A c \in closes : ~(m[1] < c /\ c < m[2])
          /\ \A o \in opens : o < m[1] => \E c \in closes : o < c /\ c < m[1]}

Stripped(s) ==
    LET solid == {i \in 1..Len(s) : ~IsSpace(s[i])} IN
    IF solid = {} THEN <<>>
    ELSE SubSeq(s, CHOOSE i \in solid : \A j \in solid : i <= j,
                   CHOOSE i \in solid : \A j \in solid : j <= i)

LastContent(text, disp) ==
    LET ms == TagMatches(text, disp)
        m == CHOOSE x \in ms : \A y \in ms : y[2] <= x[2]
    IN Stripped(SubSeq(text, m[1] + Len(OpenTag(disp)), m[2] - 1))

HasPair(text, disp) ==
    \E o \in Occurrences(text, OpenTag(disp)), c \in Occurrences(text, CloseTag(disp)) : o < c

C7_WitnessExample ==
    /\ ret.op = "_parse_anthropic_output_to_fields"
    /\ ret.output.text = SummaryScoreText
    /\ DOMAIN ret.out.dict = {"summary", "score"}

----------------------------------------------------------------------------
(* Plain-text parsing *)

PlainPieces(cls) ==
    {<<OUTPUT_TOKEN>>, <<":">>, <<" ">>, <<"\n">>, <<"x">>}
    \cup {f.disp : f \in Range(OutputsOf(cls))}

LongPlainTexts ==
    { <<"x", "\n", OUTPUT_TOKEN, "Answer", ":", " ", "x", " ", "x", "\n", "x">>,
      <<OUTPUT_TOKEN, "summary", ":", " ", "x", "\n", OUTPUT_TOKEN, "score", ":", " ", "5">>,
      <<OUTPUT_TOKEN, "Answer", ":", " ", OUTPUT_TOKEN, "Answer", ":", " ", "x">> }

InitOpenai ==
    \E cls \in CallClasses :
        \E text \in Texts(PlainPieces(cls), MaxPieces) \cup LongPlainTexts, wrapped \in BOOLEAN :
            /\ wrapped => Len(text) <= 1
            /\ ConstructedFrom(cls, <<>>, Input(Raw(text, wrapped)))

ApplyParseOpenai == ret.op = "input" /\ ParseOpenai(ret.output)

SpecOpenai == InitOpenai /\ [][ApplyParseOpenai]_vars

PlainParseOfOne ==
    /\ ret.op = "_parse_openai_output_to_fields"
    /\ ~ret.output.wrapped
    /\ Len(output_variables) = 1

\* The answer reads "<display name>: <content>" with content on the first
\* line after the colon and the space
NamesTheField(text, disp) ==
    \E c \in 1..Len(text) :
        /\ text[c] = ":"
        /\ \A i \in 1..(c - 1) : text[i] # ":"
        /\ SubSeq(text, 1, c - 1) = disp
        /\ disp # <<>>
        /\ c + 2 <= Len(text)
        /\ text[c + 1] = " "
        /\ text[c + 2] # "\n"

Chunks == split(ret.output.text, OUTPUT_TOKEN)

ResolvedChunks ==
    {i \in 1..Len(Chunks) :
        /\ match_line(Chunks[i]).matched
        /\ \E j \in 1..Len(output_variables) :
              output_variables[j].disp = match_line(Chunks[i]).field_name}

LastResolved == CHOOSE i \in ResolvedChunks : \A j \in ResolvedChunks : j <= i

\* C12: with exactly one declared output field, plain-text parsing falls
\* back to the entire last chunk only when no chunk of the marker-split output
\* resolves to the field; when a chunk does resolve to it, the result maps
\* the field to that chunk's matched content, whatever the content is.
C12_FallbackOnlyWhenNoChunkMatched ==
    PlainParseOfOne =>
        /\ ret.out.status = "ok"
        /\ ret.out.dict =
              [k \in {output_variables[1].name} |->
                  IF ResolvedChunks = {} THEN Chunks[Len(Chunks)]
                  ELSE match_line(Chunks[LastResolved]).field_content]

----------------------------------------------------------------------------
(* The three renderers, each applied to arguments drawn beforehand *)

RenderPool ==
    { Example(DictOn({"question"}), TRUE, DictOn({"answer"}), <<>>),
      Example(DictOn({"question"}), FALSE, EmptyDict, V1),
      Example(EmptyDict, TRUE, DictOn({"summary", "score"}), <<>>),
      Example(DictOn({"question"}), TRUE, DictOn({"summary"}), <<>>),
      Example(EmptyDict, FALSE, EmptyDict, <<"w">>),
      Example(EmptyDict, TRUE, DictOn({"answer"}), <<>>) }

TrainPool ==
    { Example(DictOn({"question"}), TRUE, DictOn({"answer", "score"}), <<>>),
      Example(DictOn({"question"}), FALSE, EmptyDict, V1),
      Example([k \in {"question", "unknown"} |-> <<"t">>], TRUE, DictOn({"summary"}), <<>>) }

TrainedStates ==
    {NoTrainedState} \cup {TrainedState(exs) : exs \in SeqsUpTo(TrainPool, MaxTrained)}

InitRender ==
    \E cls \in CallClasses, exs \in SeqsUpTo(RenderPool, MaxExamples) :
        \E trained_state \in TrainedStates, use_training \in BOOLEAN,
           kwargs \in {DictOn({"question"}), DictOn({"question", "context", "topic"})} :
            ConstructedFrom(cls, exs,
                Call("input", "", kwargs, Raw(<<>>, FALSE), trained_state, use_training, exs,
                     ReturnDict(EmptyDict)))

ApplyFormatOpenai ==
    ret.op = "input" /\ FormatOpenai(ret.trained_state, ret.use_training, ret.exs, ret.kwargs)

ApplyFormatOpenaiJson ==
    ret.op = "input" /\ FormatOpenaiJson(ret.trained_state, ret.use_training, ret.exs, ret.kwargs)

ApplyFormatAnthropic ==
    ret.op = "input" /\ FormatAnthropic(ret.trained_state, ret.use_training, ret.exs, ret.kwargs)

NextRender == ApplyFormatOpenai \/ ApplyFormatOpenaiJson \/ ApplyFormatAnthropic

SpecRender == InitRender /\ [][NextRender]_vars

----------------------------------------------------------------------------
(* Claims about the trained examples in a rendered prompt *)

Gate ==
    /\ ret.use_training
    /\ ret.trained_state.present
    /\ ret.trained_state.examples # <<>>

\* The examples a prompt is to show: the inline ones, then the trained ones
\* when the gate is open
Shown == ret.exs \o (IF Gate THEN ret.trained_state.examples ELSE <<>>)

IsPrefix(p, s) == Len(p) <= Len(s) /\ SubSeq(s, 1, Len(p)) = p

\* Plain text: the separator splits the prompt into the preamble, one block
\* for each shown example, and the block of the actual input values
OpenaiShows ==
    LET blocks == split(ret.out.prompt, Separator[1]) IN
    /\ Len(blocks) = Len(Shown) + 2
    /\ \A i \in 1..Len(Shown) : blocks[i + 1] = Tail(OpenaiExample(Shown[i]))
    /\ IsPrefix(Concat(Map(input_variables,
            LAMBDA f : format_prompt_value(f, Get(ret.kwargs, f.name), "openai") \o <<"\n">>)),
                blocks[Len(blocks)])

Index(text, lexeme) == find(text, <<lexeme>>, 1)

\* JSON: the trained examples stand under their own header, after the
\* inline examples and before the Input block
OpenaiJsonShows ==
    LET prompt == ret.out.prompt
        iE == Index(prompt, "\nExamples:\n")
        iT == Index(prompt, "\nTrained Examples:\n")
        iI == Index(prompt, "\nInput:\n")
    IN /\ iI # 0
       /\ iT # 0 <=> Gate
       /\ iE # 0 <=> ret.exs # <<>>
       /\ Cardinality(Occurrences(prompt, <<"input">>)) = Len(Shown)
       /\ Gate => /\ iE < iT /\ iT < iI
                  /\ SubSeq(prompt, iT + 1, iI - 1)
                        = Concat(Map(ret.trained_state.examples, JsonExample))
       /\ ret.exs # <<>> =>
             SubSeq(prompt, iE + 1, (IF Gate THEN iT ELSE iI) - 1)
               = Concat(Map(ret.exs, JsonExample))

\* Tagged markup: one example message for each shown example, in order,
\* right before the message of the actual input values
AnthropicShows ==
    LET prompt == ret.out.prompt
        at == {i \in 1..Len(prompt) : prompt[i].content[1] = "<example>\n<input>\n"}
        n == Len(prompt)
    IN /\ at = (n - 1 - Len(Shown))..(n - 2)
       /\ \A k \in 1..Len(Shown) : prompt[n - 2 - Len(Shown) + k] = AnthropicExample(Shown[k])
       /\ prompt[n - 1].content[1] = "<input>\n"

\* C9: in each of the three renderers the trained-state examples appear in
\* the prompt exactly when use_training is true and a trained state with a
\* non-empty examples list is supplied, with or without inline examples;
\* when they appear they come after all inline examples and before the
\* actual input values.
C9_TrainedExamples ==
    /\ ret.op = "_format_openai_prompt" => OpenaiShows
    /\ ret.op = "_format_openai_json_prompt" => OpenaiJsonShows
    /\ ret.op = "_format_anthropic_prompt" => AnthropicShows

\* C9 witness: a JSON prompt was rendered with two inline examples and two
\* trained examples shown.
C9_Witness ==
    /\ ret.op = "_format_openai_json_prompt"
    /\ Gate
    /\ Len(ret.exs) = 2
    /\ Len(ret.trained_state.examples) = 2
    /\ OpenaiJsonShows

\* C9 witness of the closed gate: a plain-text prompt was rendered without
\* the supplied trained examples because use_training was false.
C9_WitnessClosed ==
    /\ ret.op = "_format_openai_prompt"
    /\ ~ret.use_training
    /\ ret.trained_state.examples # <<>>
    /\ ret.exs # <<>>
    /\ Len(split(ret.out.prompt, Separator[1])) = Len(ret.exs) + 2

----------------------------------------------------------------------------
(* Sequences of parse calls on one Signature.  The last call carries the   *)
(* list of the parse calls made so far, each with its arguments and its    *)
(* outcome.                                                                *)

ParseCall(output, llm_type, out) == [output |-> output, llm_type |-> llm_type, out |-> out]

WithCalls(call, calls) ==
    [op |-> call.op, llm_type |-> call.llm_type, kwargs |-> call.kwargs,
     output |-> call.output, trained_state |-> call.trained_state,
     use_training |-> call.use_training, exs |-> call.exs, out |-> call.out,
     calls |-> calls]

ParseTexts ==
    { <<"x">>,
      <<"Answer", ":", " ", "x">>,
      <<"<", "summary", ">", "x", "</", "summary", ">">>,
      <<"<", "score", ">", "5", "</", "score", ">">>,
      <<"{", Quote, "Answer", Quote, ":", "1", "}">> }

ParseOutputs == { Raw(text, FALSE) : text \in ParseTexts } \cup { Raw(<<"x">>, TRUE) }

ParseLlmTypes == {"openai", "openai_json", "anthropic", "llama"}

InitParse ==
    \E cls \in CallClasses :
        ConstructedFrom(cls, <<Example(EmptyDict, TRUE, EmptyDict, <<>>)>>,
                        WithCalls(NoCall, <<>>))

\* parse_output_to_fields, called once more on the same Signature
ParseAgain(output, llm_type) ==
    /\ pc = "constructed"
    /\ Len(ret.calls) < MaxCalls
    /\ LET out == parse_output_to_fields(output, llm_type) IN
       ret' = WithCalls(Call("parse_output_to_fields", llm_type, EmptyDict, output,
                             NoTrainedState, TRUE, <<>>, out),
                        Append(ret.calls, ParseCall(output, llm_type, out)))
    /\ UNCHANGED <<fields, examples, input_variables, output_variables, hint_variables, pc>>

NextParse == \E output \in ParseOutputs, llm_type \in ParseLlmTypes : ParseAgain(output, llm_type)

SpecParse == InitParse /\ [][NextParse]_vars

SameArguments(a, b) == a.output = b.output /\ a.llm_type = b.llm_type

C11_WitnessSameError ==
    /\ Len(ret.calls) >= 2
    /\ SameArguments(ret.calls[1], ret.calls[2])
    /\ ret.calls[1].out.status = "JSONDecodeError"
    /\ ret.calls[2].out = ret.calls[1].out

====
